---------------------------- MODULE Spec2Model ----------------------------
(* Model of the snake game of src/src/game.rs: the Game struct, Game::new, *)
(* Game::generate_food, Game::spawn_food, Game::update and the session     *)
(* loop Game::run.                                                         *)
(*                                                                         *)
(* The program fixes the board at WIDTH = 40, HEIGHT = 20 (game.rs:16-17). *)
(* Every rule of the game is written in terms of WIDTH and HEIGHT only, so *)
(* the model keeps the two names and checks a scaled-down board on which   *)
(* the walls, self-collisions and a completely filled interior are all     *)
(* reachable.                                                              *)
(*                                                                         *)
(* last_update / Instant::elapsed are abstracted: whether 100ms have       *)
(* passed when the loop reaches the tick test is a nondeterministic choice *)
(* (Tick or SkipTick).  draw() does not write the game state and is left   *)
(* out.                                                                    *)
EXTENDS Integers, Sequences, FiniteSets, TLC

\* Board dimensions, scaled down from 40 x 20: an interior of 3 x 2 cells
\* around the start cell (WIDTH/2, HEIGHT/2).
WIDTH == 5
HEIGHT == 4

VARIABLES snake, food, direction, next_direction, score, game_over, pc

vars == <<snake, food, direction, next_direction, score, game_over, pc>>

\* The fields of Game that update() and the key handlers may write.
state == <<snake, food, direction, next_direction, score, game_over>>

Direction == {"Up", "Down", "Left", "Right"}

\* struct Position { x: u16, y: u16 }
Position(px, py) == [x |-> px, y |-> py]

\* u16 arithmetic wraps modulo 2^16 (release build).
U16(n) == n % 65536

\* Variant of the food generator with ranges that include the border ring.
generate_food_with_border ==
    {[x |-> i, y |-> j] : i \in 0..(WIDTH - 1), j \in 0..(HEIGHT - 1)}

\* The values Game::generate_food can return:
\* x in 1..WIDTH-1 (exclusive), y in 1..HEIGHT-1 (exclusive).
generate_food == {Position(i, j) : i \in 1..(WIDTH - 2), j \in 1..(HEIGHT - 2)}

\* let center = Position { x: WIDTH / 2, y: HEIGHT / 2 }
center == Position(WIDTH \div 2, HEIGHT \div 2)

\* Variant of the head computation with Left and Right swapped.
new_head_mirrored(head, dir) ==
    CASE dir = "Up"    -> Position(head.x, U16(head.y - 1))
      [] dir = "Down"  -> Position(head.x, U16(head.y + 1))
      [] dir = "Left"  -> Position(U16(head.x + 1), head.y)
      [] dir = "Right" -> Position(U16(head.x - 1), head.y)

\* Variant of the head computation that wraps around the interior instead
\* of entering the border ring.
new_head_wraparound(head, dir) ==
    CASE dir = "Up"    -> [x |-> head.x,
                           y |-> IF head.y = 1 THEN HEIGHT - 2 ELSE head.y - 1]
      [] dir = "Down"  -> [x |-> head.x,
                           y |-> IF head.y = HEIGHT - 2 THEN 1 ELSE head.y + 1]
      [] dir = "Left"  -> [x |-> IF head.x = 1 THEN WIDTH - 2 ELSE head.x - 1,
                           y |-> head.y]
      [] dir = "Right" -> [x |-> IF head.x = WIDTH - 2 THEN 1 ELSE head.x + 1,
                           y |-> head.y]

\* The match on self.direction in update().
new_head(head, dir) ==
    CASE dir = "Up"    -> Position(head.x, U16(head.y - 1))
      [] dir = "Down"  -> Position(head.x, U16(head.y + 1))
      [] dir = "Left"  -> Position(U16(head.x - 1), head.y)
      [] dir = "Right" -> Position(U16(head.x + 1), head.y)

\* Variant of the wall test that forgets the bottom wall.
wall_collision_no_bottom(p) ==
    p.x = 0 \/ p.x = WIDTH - 1 \/ p.y = 0

\* Variant of the wall test that is off by one on the far walls.
wall_collision_off_by_one(p) ==
    p.x = 0 \/ p.x = WIDTH \/ p.y = 0 \/ p.y = HEIGHT

\* Variant of the wall test that is off by one towards the inside on the
\* far walls.
wall_collision_too_early(p) ==
    p.x = 0 \/ p.x = WIDTH - 2 \/ p.y = 0 \/ p.y = HEIGHT - 2

\* Variant of the wall test that forgets the top wall.
wall_collision_no_top(p) ==
    p.x = 0 \/ p.x = WIDTH - 1 \/ p.y = HEIGHT - 1

\* The wall test of update().
wall_collision(p) ==
    p.x = 0 \/ p.x = WIDTH - 1 \/ p.y = 0 \/ p.y = HEIGHT - 1

\* Variant of the self-collision test that looks at the head only.
self_collision_head_only(s, p) ==
    Len(s) > 0 /\ s[1].x = p.x /\ s[1].y = p.y

\* Variant of the self-collision test that leaves out the tail, which the
\* move is about to vacate.
self_collision_skip_tail(s, p) ==
    \E i \in 1..(Len(s) - 1) : s[i].x = p.x /\ s[i].y = p.y

\* The self-collision test of update():
\* self.snake.iter().any(|pos| pos.x == new_head.x && pos.y == new_head.y)
self_collision(s, p) ==
    \E i \in 1..Len(s) : s[i].x = p.x /\ s[i].y = p.y

\* Variant of the loop condition that compares the food with the head only.
food_on_snake_head_only(s, f) ==
    Len(s) > 0 /\ s[1].x = f.x /\ s[1].y = f.y

\* Variant of the loop condition with || in place of &&.
food_on_snake_row_or_column(s, f) ==
    \E i \in 1..Len(s) : s[i].x = f.x \/ s[i].y = f.y

\* The loop condition of spawn_food:
\* self.snake.iter().any(|pos| pos.x == self.food.x && pos.y == self.food.y)
food_on_snake(s, f) ==
    \E i \in 1..Len(s) : s[i].x = f.x /\ s[i].y = f.y

\* Variant of the food test that compares the x coordinate only.
eats_x_only(p, f) ==
    p.x = f.x

\* The food test of update():
\* new_head.x == self.food.x && new_head.y == self.food.y
eats(p, f) ==
    p.x = f.x /\ p.y = f.y

\* Variant of the head insertion that pushes at the back.
push_back(s, p) == Append(s, p)

\* self.snake.push_front(p)
push_front(s, p) == <<p>> \o s

\* Variant of the tail removal that pops at the front.
pop_front(s) == SubSeq(s, 2, Len(s))

\* Variant of the tail removal that removes nothing.
pop_back_forgotten(s) == s

\* self.snake.pop_back()
pop_back(s) == SubSeq(s, 1, Len(s) - 1)

\* Game::new(), followed by main() before it calls run().
Init ==
    /\ snake = <<center>>
    /\ food \in generate_food
    /\ direction = "Right"
    /\ next_direction = "Right"
    /\ score = 0
    /\ game_over = FALSE
    /\ pc = "start"

\* The loop test `while !self.game_over` of run().
loop_test(over) == IF over THEN "done" ELSE "poll"

\* run(): terminal set-up, first draw, first loop test.
RunStart ==
    /\ pc = "start"
    /\ pc' = loop_test(game_over)
    /\ UNCHANGED state

\* Variant of the Left arm without its guard.
KeyLeft_unguarded ==
    /\ pc = "poll"
    /\ next_direction' = "Left"
    /\ pc' = "tick"
    /\ UNCHANGED <<snake, food, direction, score, game_over>>

\* KeyCode::Left if self.direction != Direction::Right
KeyLeft ==
    /\ pc = "poll"
    /\ next_direction' = IF direction # "Right" THEN "Left" ELSE next_direction
    /\ pc' = "tick"
    /\ UNCHANGED <<snake, food, direction, score, game_over>>

\* KeyCode::Right if self.direction != Direction::Left
KeyRight ==
    /\ pc = "poll"
    /\ next_direction' = IF direction # "Left" THEN "Right" ELSE next_direction
    /\ pc' = "tick"
    /\ UNCHANGED <<snake, food, direction, score, game_over>>

\* Variant of the Up arm that tests the buffered direction.
KeyUp_tests_buffer ==
    /\ pc = "poll"
    /\ next_direction' = IF next_direction # "Down" THEN "Up" ELSE next_direction
    /\ pc' = "tick"
    /\ UNCHANGED <<snake, food, direction, score, game_over>>

\* KeyCode::Up if self.direction != Direction::Down
KeyUp ==
    /\ pc = "poll"
    /\ next_direction' = IF direction # "Down" THEN "Up" ELSE next_direction
    /\ pc' = "tick"
    /\ UNCHANGED <<snake, food, direction, score, game_over>>

\* KeyCode::Down if self.direction != Direction::Up
KeyDown ==
    /\ pc = "poll"
    /\ next_direction' = IF direction # "Up" THEN "Down" ELSE next_direction
    /\ pc' = "tick"
    /\ UNCHANGED <<snake, food, direction, score, game_over>>

\* Variant of the run loop without the quit arm: 'q' falls to `_ => {}`.
KeyQuit_unhandled ==
    /\ pc = "poll"
    /\ pc' = "tick"
    /\ UNCHANGED state

\* KeyCode::Char('q') => self.game_over = true
KeyQuit ==
    /\ pc = "poll"
    /\ game_over' = TRUE
    /\ pc' = "tick"
    /\ UNCHANGED <<snake, food, direction, next_direction, score>>

\* Any other key (`_ => {}`), a non-key event, or the poll timing out.
NoKey ==
    /\ pc = "poll"
    /\ pc' = "tick"
    /\ UNCHANGED state

\* Game::update() past its early return: commit the buffered direction,
\* compute the new head, test the wall and the body, move, eat.  spawning
\* tells whether spawn_food's while loop is entered, i.e. whether the first
\* candidate it draws lies on the snake.
update_body(spawning) ==
    LET nh == new_head(Head(snake), next_direction) IN
    /\ direction' = next_direction
    /\ UNCHANGED next_direction
    /\ IF wall_collision(nh) \/ self_collision(snake, nh)
       THEN /\ game_over' = TRUE
            /\ spawning = FALSE
            /\ UNCHANGED <<snake, food, score>>
       ELSE /\ UNCHANGED game_over
            /\ IF eats(nh, food)
               THEN /\ snake' = push_front(snake, nh)
                    /\ score' = score + 1
                    /\ food' \in generate_food
                    /\ spawning = food_on_snake(snake', food')
               ELSE /\ snake' = pop_back(push_front(snake, nh))
                    /\ spawning = FALSE
                    /\ UNCHANGED <<food, score>>

\* Variant of update() without the early return.
update_no_early_return(spawning) ==
    update_body(spawning)

\* Game::update(): `if self.game_over { return; }`, then the body.
update(spawning) ==
    IF game_over
    THEN /\ spawning = FALSE
         /\ UNCHANGED state
    ELSE update_body(spawning)

\* run(): last_update.elapsed() >= 100ms, so update() runs; then either
\* spawn_food is still looping or the loop test is evaluated.
Tick ==
    /\ pc = "tick"
    /\ \E spawning \in BOOLEAN :
          /\ update(spawning)
          /\ pc' = IF spawning THEN "spawn" ELSE loop_test(game_over')

\* run(): less than 100ms since the last update; straight to the loop test.
SkipTick ==
    /\ pc = "tick"
    /\ pc' = loop_test(game_over)
    /\ UNCHANGED state

\* One iteration of the while loop of spawn_food (the candidate drawn
\* before lay on the snake), then, if the loop exits, the loop test of run().
spawn_food ==
    /\ pc = "spawn"
    /\ food' \in generate_food
    /\ pc' = IF food_on_snake(snake, food') THEN "spawn" ELSE loop_test(game_over)
    /\ UNCHANGED <<snake, direction, next_direction, score, game_over>>

Next ==
    \/ RunStart
    \/ NoKey
    \/ KeyLeft
    \/ KeyRight
    \/ KeyUp
    \/ KeyDown
    \/ KeyQuit
    \/ Tick
    \/ SkipTick
    \/ spawn_food

Spec == Init /\ [][Next]_vars

\* The scheduling of run().  Every loop iteration takes time (the poll
\* returns within 50ms), so run() keeps moving; last_update.elapsed() grows
\* with the clock until update() is called, so the tick test cannot fail
\* forever.
RunFairSpec ==
    /\ Spec
    /\ WF_vars(Next)
    /\ SF_vars(Tick)

\* The random source of spawn_food.  rand::thread_rng() draws every interior
\* cell again and again (with probability 1), so while spawn_food loops and
\* some cell is off the snake, a cell off the snake is eventually drawn.
SpawnFairSpec ==
    /\ Spec
    /\ WF_vars(spawn_food /\ \A i \in 1..Len(snake) : snake[i] # food')

TypeOK ==
    /\ snake \in Seq([x : 0..(WIDTH - 1), y : 0..(HEIGHT - 1)])
    /\ food \in generate_food
    /\ direction \in Direction
    /\ next_direction \in Direction
    /\ score \in Nat
    /\ game_over \in BOOLEAN
    /\ pc \in {"start", "poll", "tick", "spawn", "done"}

-----------------------------------------------------------------------------
(* Vocabulary of the properties, written independently of the operators    *)
(* above.                                                                  *)

\* p is a cell of the one-cell border ring.
Border(p) ==
    p.x = 0 \/ p.x = WIDTH - 1 \/ p.y = 0 \/ p.y = HEIGHT - 1

\* p is a cell of the interior [1, WIDTH-2] x [1, HEIGHT-2].
InInterior(p) ==
    /\ 1 <= p.x /\ p.x <= WIDTH - 2
    /\ 1 <= p.y /\ p.y <= HEIGHT - 2

\* p is one of the segments of s.
OnSnake(s, p) ==
    \E i \in DOMAIN s : s[i] = p

\* The cell next to p in direction d, in unbounded integer arithmetic.
Offset(p, d) ==
    [x |-> p.x + (IF d = "Right" THEN 1 ELSE IF d = "Left" THEN -1 ELSE 0),
     y |-> p.y + (IF d = "Down" THEN 1 ELSE IF d = "Up" THEN -1 ELSE 0)]

Opposite(d) ==
    CASE d = "Up" -> "Down"
      [] d = "Down" -> "Up"
      [] d = "Left" -> "Right"
      [] d = "Right" -> "Left"

\* The cell the head moves to if update() runs now.
NextHead == Offset(Head(snake), next_direction)

\* update() runs now, from a non-terminal state.
Step == Tick /\ ~game_over

InteriorCellCount == (WIDTH - 2) * (HEIGHT - 2)

-----------------------------------------------------------------------------
\* C1: a step from a non-terminal state whose new head lands on a border
\* cell sets game_over and leaves snake, food and score as they were.
C1_WallCollision ==
    [][(Step /\ Border(NextHead))
         => (game_over' /\ UNCHANGED <<snake, food, score>>)]_vars

\* The game has ended with the head facing a border cell in the committed
\* direction, the snake still inside the interior.
C1_Witness ==
    /\ pc = "done"
    /\ game_over
    /\ direction = next_direction
    /\ Border(Offset(Head(snake), direction))
    /\ \A i \in DOMAIN snake : InInterior(snake[i])

\* C2: in every reachable state 1 <= len(snake) <= interior cell count, and
\* while game_over is false every segment lies in the interior.
C2_SnakeBounds ==
    /\ 1 <= Len(snake)
    /\ Len(snake) <= InteriorCellCount
    /\ ~game_over => \A i \in DOMAIN snake : InInterior(snake[i])

\* The snake fills the whole interior, or it runs along a wall while the
\* game is on.
C2_Witness ==
    /\ ~game_over
    /\ Len(snake) = InteriorCellCount
    /\ Head(snake).x = WIDTH - 2

\* C3: no two segments of the snake occupy the same cell.
C3_NoDuplicates ==
    \A i, j \in DOMAIN snake : i # j => snake[i] # snake[j]

\* The game has ended with the head facing a segment of the body that is
\* not the tail.
C3_Witness ==
    /\ game_over
    /\ direction = next_direction
    /\ \E i \in 2..(Len(snake) - 1) : snake[i] = Offset(Head(snake), direction)

\* C4: in the state produced by new() the food is not on the initial snake
\* segment (WIDTH/2, HEIGHT/2).
C4_InitialFoodOffSnake ==
    pc = "start" => food # Position(WIDTH \div 2, HEIGHT \div 2)

\* A step that moves the head onto the food cell without collision.
EatStep ==
    /\ Step
    /\ NextHead = food
    /\ ~Border(NextHead)
    /\ ~OnSnake(snake, NextHead)

\* A key handler runs for the arrow key opposite to the current direction.
OppositeKey ==
    \/ direction = "Right" /\ KeyLeft
    \/ direction = "Left" /\ KeyRight
    \/ direction = "Down" /\ KeyUp
    \/ direction = "Up" /\ KeyDown

C6_Growth ==
    [][/\ EatStep => /\ snake' = <<NextHead>> \o snake
                     /\ Len(snake') = Len(snake) + 1
       /\ spawn_food => snake' = snake
       /\ ((EatStep \/ spawn_food) /\ pc' # "spawn")
             => ~OnSnake(snake', food')]_vars

\* The snake has eaten at least twice and the game goes on.
C6_Witness ==
    /\ pc = "poll"
    /\ score >= 2
    /\ Len(snake) >= 3
    /\ ~OnSnake(snake, food)

\* C7: a step that moves the head onto a cell that is neither wall, snake
\* nor food puts the old head offset by one cell in the committed direction
\* in front of the previous snake without its last segment; length, food and
\* score are unchanged.
C7_Translation ==
    [][(/\ Step
        /\ ~Border(NextHead)
        /\ ~OnSnake(snake, NextHead)
        /\ NextHead # food)
         => /\ snake' = <<Offset(Head(snake), direction')>>
                            \o SubSeq(snake, 1, Len(snake) - 1)
            /\ Len(snake') = Len(snake)
            /\ UNCHANGED <<food, score>>]_vars

\* A straight snake of three segments moving Right along the centre row,
\* its head next to the right wall.
C7_Witness ==
    /\ pc = "poll"
    /\ ~game_over
    /\ direction = "Right"
    /\ snake = <<Position(WIDTH - 2, HEIGHT \div 2),
                 Position(WIDTH - 3, HEIGHT \div 2),
                 Position(WIDTH - 4, HEIGHT \div 2)>>

\* C8: across any single transition the score stays or grows by exactly 1,
\* and it grows exactly when a step moves the head onto the food without
\* collision.
C8_Score ==
    [][/\ score' = score \/ score' = score + 1
       /\ (score' = score + 1) <=> EatStep]_vars

\* Three foods have been eaten.
C8_Witness ==
    /\ score = 3
    /\ ~game_over

\* C9: update() called when game_over is already true changes none of
\* snake, food, direction, next_direction, score, game_over.
C9_TerminalStepNoOp ==
    [][(Tick /\ game_over) => UNCHANGED state]_vars

\* The loop has ended on a quit: the game is over although the cell ahead
\* of the head is free, and the snake was not moved onto it.
C9_Witness ==
    /\ pc = "done"
    /\ game_over
    /\ ~Border(NextHead)
    /\ ~OnSnake(snake, NextHead)

\* C10: game_over never goes back to false, and it becomes true only in a
\* step that detects a wall or a self collision, or on the quit key.
C10_OneWay ==
    [][/\ game_over => game_over'
       /\ (~game_over /\ game_over')
             => \/ KeyQuit
                \/ Step /\ (Border(NextHead) \/ OnSnake(snake, NextHead))]_vars

\* The quit key has just set the flag and the tick test of the same loop
\* iteration is still to come.
C10_Witness ==
    /\ pc = "tick"
    /\ game_over

\* C11: the quit key sets game_over at once and leaves snake, food and score
\* unchanged; update() called after it, the tick of the same loop iteration
\* included, neither moves the snake nor changes the score.
C11_Quit ==
    [][/\ KeyQuit => /\ ~game_over
                     /\ game_over'
                     /\ UNCHANGED <<snake, food, score>>
       /\ (Tick /\ game_over) => UNCHANGED <<snake, score>>]_vars

\* The loop has ended on a quit after the snake had grown: the cell ahead of
\* the head is free and the head is not on it.
C11_Witness ==
    /\ pc = "done"
    /\ game_over
    /\ score >= 1
    /\ Len(snake) = score + 1
    /\ ~Border(Offset(Head(snake), direction))
    /\ ~OnSnake(snake, Offset(Head(snake), direction))
    /\ next_direction = direction

\* The key handler of run() runs for arrow key d.
Request(d) ==
    \/ d = "Left" /\ KeyLeft
    \/ d = "Right" /\ KeyRight
    \/ d = "Up" /\ KeyUp
    \/ d = "Down" /\ KeyDown

\* C12: one-tick input buffering.  A request that is not the opposite of the
\* current direction overwrites the buffer, a request that is leaves the
\* buffer as it was, and no request changes snake, food, score, direction or
\* game_over; the buffer changes in no other way; a step commits the buffer
\* and keeps it, so with no accepted request since the previous step the
\* direction is unchanged.
C12_Buffering ==
    [][/\ \A d \in Direction :
            Request(d) =>
              /\ next_direction' = IF d # Opposite(direction)
                                   THEN d ELSE next_direction
              /\ UNCHANGED <<snake, food, score, direction, game_over>>
       /\ next_direction' # next_direction =>
              \E d \in Direction : /\ Request(d)
                                   /\ d # Opposite(direction)
                                   /\ next_direction' = d
       /\ Step => direction' = next_direction
       /\ direction' # direction => Step
       /\ Step => next_direction' = direction']_vars

\* A request has been accepted and waits for the next step.
C12_Witness ==
    /\ pc = "tick"
    /\ ~game_over
    /\ next_direction # direction

\* The state new() produces, at
\* the tick test of the first loop iteration, no request having been made.
FreshAtTick ==
    /\ pc = "tick"
    /\ ~game_over
    /\ snake = <<Position(WIDTH \div 2, HEIGHT \div 2)>>
    /\ direction = "Right"
    /\ next_direction = "Right"
    /\ score = 0

\* The cell right of the start cell: (21, 10) on the 40 x 20 board.
RightOfCenter == Position((WIDTH \div 2) + 1, HEIGHT \div 2)

\* C13 as stated: from every state new() can produce, whatever the food, one
\* step with no input gives a non-terminal state with the head right of the
\* start cell and a snake of length 1.
C13_FirstStepLengthOne ==
    [][(Tick /\ FreshAtTick)
         => /\ ~game_over'
            /\ Head(snake') = RightOfCenter
            /\ Len(snake') = 1]_vars

\* C13 amended: the state is non-terminal and the head is right of the start
\* cell; the length is 1 unless the food new() produced is that very cell, in
\* which case the food is eaten and the length is 2.
C13_FirstStep ==
    [][(Tick /\ FreshAtTick)
         => /\ ~game_over'
            /\ Head(snake') = RightOfCenter
            /\ Len(snake') = IF food = RightOfCenter THEN 2 ELSE 1]_vars

\* The first step has eaten the food that new() put right of the start cell.
C13_Witness ==
    /\ ~game_over
    /\ score = 1
    /\ direction = "Right"
    /\ snake = <<RightOfCenter, Position(WIDTH \div 2, HEIGHT \div 2)>>

\* C14: in every reachable state the food lies in the interior, after new()
\* and after every respawn.
C14_FoodInInterior ==
    /\ 1 <= food.x /\ food.x <= WIDTH - 2
    /\ 1 <= food.y /\ food.y <= HEIGHT - 2

\* A respawn has put the food in the interior corner next to the top right
\* corner of the border.
C14_Witness ==
    /\ score >= 1
    /\ pc # "spawn"
    /\ food = Position(WIDTH - 2, 1)

\* C15: a step from a non-terminal state whose new head is on any segment of
\* the pre-move snake, the tail included, sets game_over and leaves snake,
\* food and score unchanged.
C15_StrictSelfCollision ==
    [][(Step /\ \E i \in 1..Len(snake) : snake[i] = NextHead)
         => (game_over' /\ UNCHANGED <<snake, food, score>>)]_vars

\* The game has ended with the head facing the tail cell.
C15_Witness ==
    /\ pc = "done"
    /\ game_over
    /\ Len(snake) >= 4
    /\ direction = next_direction
    /\ snake[Len(snake)] = Offset(Head(snake), direction)

\* C16: while spawn_food loops and some interior cell is free of the snake,
\* the loop eventually exits (every candidate being drawn again and again)
\* with the food on a free cell; the loop exits in no other way, so it can
\* fail to exit only when the snake occupies every interior cell.
C16_SpawnTerminates ==
    /\ (pc = "spawn" /\ Len(snake) < InteriorCellCount)
          ~> (pc # "spawn" /\ ~OnSnake(snake, food))
    /\ [][(pc = "spawn" /\ pc' # "spawn")
             => /\ Len(snake) < InteriorCellCount
                /\ snake' = snake
                /\ InInterior(food')
                /\ ~OnSnake(snake', food')]_vars

\* spawn_food is looping, its last candidate on the snake, while a free
\* interior cell exists.
C16_Witness ==
    /\ pc = "spawn"
    /\ OnSnake(snake, food)
    /\ \E c \in generate_food : ~OnSnake(snake, c)

\* The number of steps after which a head at p, moved straight in direction
\* d, lands on the border ring.
StepsToWall(p, d) ==
    CASE d = "Up"    -> p.y
      [] d = "Down"  -> (HEIGHT - 1) - p.y
      [] d = "Left"  -> p.x
      [] d = "Right" -> (WIDTH - 1) - p.x

MaxWidthHeight == IF WIDTH >= HEIGHT THEN WIDTH ELSE HEIGHT

\* The steps left before the wall, in the buffered direction.
StepsLeft == StepsToWall(Head(snake), next_direction)

\* C18: eventual game over without input.  While the game is on, the wall
\* ahead in the buffered direction is between 1 and max(WIDTH, HEIGHT) - 2
\* steps away; every step that does not end the game brings it one step
\* nearer, nothing else but an accepted request changes the distance, and the
\* step at distance 1 ends the game.  Steps keep coming, so a run in which
\* accepted requests stop changing the buffer and no respawn loops forever
\* reaches game_over.
C18_EventualGameOver ==
    /\ [](~game_over => (1 <= StepsLeft /\ StepsLeft <= MaxWidthHeight - 2))
    /\ [][/\ (Step /\ ~game_over') => StepsLeft' = StepsLeft - 1
          /\ (Step /\ StepsLeft = 1) => game_over'
          /\ (~Step /\ next_direction' = next_direction)
                => StepsLeft' = StepsLeft]_vars
    /\ \/ []<><<next_direction' # next_direction>>_vars
       \/ <>[](pc = "spawn")
       \/ <>game_over

\* The head is in the interior column next to the left wall and Right is
\* buffered: the wall ahead is max(WIDTH, HEIGHT) - 2 steps away.
C18_Witness ==
    /\ pc = "tick"
    /\ ~game_over
    /\ Head(snake).x = 1
    /\ next_direction = "Right"
    /\ StepsLeft = MaxWidthHeight - 2

\* C17: in every reachable non-terminal state the head is in the interior,
\* so the u16 expressions of update() (head.y - 1, head.y + 1, head.x - 1,
\* head.x + 1) equal the unbounded integer results: none wraps around.
C17_NoUnderflow ==
    ~game_over =>
      /\ Head(snake).x >= 1 /\ Head(snake).x <= WIDTH - 2
      /\ Head(snake).y >= 1 /\ Head(snake).y <= HEIGHT - 2
      /\ \A d \in Direction :
            new_head(Head(snake), d) = Offset(Head(snake), d)

\* update() is about to compute head.y - 1 with the head in the interior
\* corner (1, 1), the smallest coordinates a head can have.
C17_Witness ==
    /\ pc = "tick"
    /\ ~game_over
    /\ Head(snake) = Position(1, 1)
    /\ next_direction = "Up"

\* C19: in every reachable state score + 1 = len(snake).
C19_ScoreIsLength ==
    score + 1 = Len(snake)

\* Four foods eaten, five segments.
C19_Witness ==
    /\ score = 4
    /\ Len(snake) = 5
    /\ pc = "poll"

\* C20: consecutive segments of the snake are orthogonally adjacent: they
\* differ by exactly 1 in exactly one coordinate.
C20_Contiguous ==
    \A i \in 1..(Len(snake) - 1) :
       \/ /\ snake[i].x = snake[i + 1].x
          /\ (snake[i].y - snake[i + 1].y) \in {-1, 1}
       \/ /\ snake[i].y = snake[i + 1].y
          /\ (snake[i].x - snake[i + 1].x) \in {-1, 1}

\* A snake of at least four segments with a bend right behind the head.
C20_Witness ==
    /\ ~game_over
    /\ Len(snake) >= 4
    /\ snake[1].x # snake[3].x
    /\ snake[1].y # snake[3].y

=============================================================================
